---- MODULE Spec2Model ----
(***************************************************************************)
(* getzotero.py: download the Zotero tarball for one architecture, read    *)
(* its version from application.ini, rearrange the tree into a Debian      *)
(* package layout, run dpkg-deb on it and delete the scratch directory.    *)
(*                                                                         *)
(* The environment (the remote server, the tarball's contents, dpkg-deb)   *)
(* is nondeterministic.  Paths below the scratch directory are sequences   *)
(* of path components.  An application.ini is a sequence of lines, each a  *)
(* section header or a "key = value" option; the files considered have no  *)
(* [DEFAULT] section and no '%' in a value, so ConfigParser's default      *)
(* fallback and interpolation never apply.  The operating system itself    *)
(* does not fail spontaneously (no full disk, no permission error): the    *)
(* filesystem errors are the ones the tarball's contents provoke.          *)
(***************************************************************************)
EXTENDS FiniteSets, Integers, Sequences, TLC

VARIABLES
    entry,      \* "cli": started as a script; "main": main(arch) called directly
    arch,       \* the architecture key given
    archive,    \* the remote resource: what the server would deliver
    pc,         \* the statement the process is about to execute
    tmp_exists, \* the scratch directory exists on disk
    scratch,    \* the paths below the scratch directory
    control,    \* what was written to DEBIAN/control
    cwd,        \* files produced in the working directory
    requests,   \* the URLs requested so far, in order
    version,    \* main's local variable version
    exitKind,   \* "running", "returned", "sys_exit", "unhandled", "argparse_error"
    exitCode,   \* the process's exit code, -1 while it runs
    message,    \* what the terminating call told the user
    calls,      \* the stages main has started, in order
    dpkgCalls   \* the invocations of dpkg-deb: arguments and package root

vars == <<entry, arch, archive, pc, tmp_exists, scratch, control, cwd,
          requests, version, exitKind, exitCode, message, calls, dpkgCalls>>

(***************************************************************************)
(* Bounds                                                                  *)
(***************************************************************************)
MaxIniLines == 2

(***************************************************************************)
(* The module's constant tables                                            *)
(***************************************************************************)
URLS ==
    [a \in {"x86_64", "i686"} |->
        "https://www.zotero.org/download/client/dl?channel=release&platform=linux-" \o a]

FILENAME == "zotero.tar.bz2"

ZOTERO_SUBDIR(a) == "Zotero_linux-" \o a

INI_FILE == "application.ini"

VERSION_SECTION == <<"App", "Version">>

ARCH_TRANSLATE == [a \in {"x86_64", "i686"} |-> IF a = "x86_64" THEN "amd64" ELSE "i386"]

\* the two fields given to the template in each other's place
DEB_FILE_ArgsSwapped(v, a) == "zotero_" \o a \o "_" \o v \o ".deb"

DEB_FILE(v, a) == "zotero_" \o v \o "_" \o a \o ".deb"

\* DEB_CONTROL.format(version=..., arch=...): the two interpolated fields
DEB_CONTROL(v, a) == [written |-> TRUE, Package |-> "zotero", Version |-> v, Architecture |-> a]

NoControl == [written |-> FALSE, Package |-> "", Version |-> "", Architecture |-> ""]

\* argparse: add_argument("arch", choices=[...])
Choices == {"x86_64", "i686"}

\* the architecture keys a caller may pass
ArchKeys == {"x86_64", "i686", "arm64", "amd64"}

(***************************************************************************)
(* application.ini and ConfigParser                                        *)
(***************************************************************************)
Sec(s) == [kind |-> "section", name |-> s, value |-> ""]

Opt(k, v) == [kind |-> "option", name |-> k, value |-> v]

IniLines ==
    {Sec("App"), Sec("Other"),
     Opt("Version", "1.0"), Opt("version", "9.9.9"), Opt("Name", "Zotero")}

Inis == UNION {[1..n -> IniLines] : n \in 0..MaxIniLines}

\* ConfigParser.optionxform: option names are lower-cased
optionxform(k) ==
    CASE k = "Version" -> "version"
      [] k = "Name" -> "name"
      [] OTHER -> k

EmptyParser == [error |-> "", sections |-> {}, options |-> {}]

\* ConfigParser().read_file(f), strict: the sections and options read, or
\* the error raised.  cur is the section being read, "" before the first.
RECURSIVE read_file(_, _, _, _)
read_file(lines, i, cur, st) ==
    IF i > Len(lines) \/ st.error # "" THEN st
    ELSE LET l == lines[i] IN
        IF l.kind = "section"
        THEN IF l.name \in st.sections
             THEN [st EXCEPT !.error = "DuplicateSectionError"]
             ELSE read_file(lines, i + 1, l.name,
                            [st EXCEPT !.sections = @ \cup {l.name}])
        ELSE IF cur = ""
             THEN [st EXCEPT !.error = "MissingSectionHeaderError"]
             ELSE IF \E o \in st.options : o[1] = cur /\ o[2] = optionxform(l.name)
                  THEN [st EXCEPT !.error = "DuplicateOptionError"]
                  ELSE read_file(lines, i + 1, cur,
                                 [st EXCEPT !.options =
                                      @ \cup {<<cur, optionxform(l.name), l.value>>}])

\* parser.get(section, option, fallback="0"): a missing option is no error
parser_get_Fallback(st, section, option) ==
    IF \E o \in st.options : o[1] = section /\ o[2] = optionxform(option)
    THEN [error |-> "",
          value |-> (CHOOSE o \in st.options :
                         o[1] = section /\ o[2] = optionxform(option))[3]]
    ELSE [error |-> "", value |-> "0"]

\* parser.get(section, option): the value, or the error raised
parser_get(st, section, option) ==
    IF section \notin st.sections
    THEN [error |-> "NoSectionError", value |-> ""]
    ELSE IF \E o \in st.options : o[1] = section /\ o[2] = optionxform(option)
         THEN [error |-> "",
               value |-> (CHOOSE o \in st.options :
                              o[1] = section /\ o[2] = optionxform(option))[3]]
         ELSE [error |-> "NoOptionError", value |-> ""]

(***************************************************************************)
(* The remote resource                                                     *)
(***************************************************************************)
ExtraEntries == {<<"opt">>, <<"DEBIAN">>, <<"usr", "share", "applications">>}

MalformedArchive ==
    [wellformed |-> FALSE, appDirs |-> {}, hasIni |-> FALSE, ini |-> <<>>, extras |-> {}]

Archives ==
    {MalformedArchive} \cup
    {ar \in [wellformed : {TRUE}, appDirs : SUBSET {"x86_64", "i686"},
              hasIni : BOOLEAN, ini : Inis, extras : SUBSET ExtraEntries] :
        ar.hasIni \/ ar.ini = <<>>}

\* a path and the directories above it
WithParents(p) == {SubSeq(p, 1, n) : n \in 1..Len(p)}

\* the paths the tarball's members occupy once extracted
Members(ar) ==
    UNION {{<<ZOTERO_SUBDIR(a)>>, <<ZOTERO_SUBDIR(a), "zotero">>} \cup
           (IF ar.hasIni THEN {<<ZOTERO_SUBDIR(a), INI_FILE>>} ELSE {}) :
               a \in ar.appDirs}
    \cup UNION {WithParents(e) : e \in ar.extras}

IsPrefix(a, b) == Len(a) <= Len(b) /\ SubSeq(b, 1, Len(a)) = a

\* Path.rename of a directory: everything below it moves with it
Rename(paths, from, to) ==
    {IF IsPrefix(from, p) THEN to \o SubSeq(p, Len(from) + 1, Len(p)) ELSE p :
        p \in paths}

(***************************************************************************)
(* How the process ends                                                    *)
(***************************************************************************)
\* the process ends inside a try/finally that removes the scratch directory
TerminateWithCleanup(kind, code, msg) ==
    /\ exitKind' = kind
    /\ exitCode' = code
    /\ message' = msg
    /\ pc' = "exited"
    /\ tmp_exists' = FALSE

\* The process ends inside main: main has no try/finally, so nothing that
\* exists at that moment is cleaned up.
Terminate(kind, code, msg) ==
    /\ exitKind' = kind
    /\ exitCode' = code
    /\ message' = msg
    /\ pc' = "exited"
    /\ tmp_exists' = tmp_exists

\* sys.exit(<string>): the string goes to stderr, the exit code is 1
SysExit(msg) == Terminate("sys_exit", 1, msg)

\* an exception nobody catches: a traceback, the exit code is 1
Raise(exc) == Terminate("unhandled", 1, exc)

\* main preparing the directories before it has read the version
MainSequence_LayoutFirst ==
    <<"mkdtemp", "get_archive", "extract_archive", "prepare_dir", "get_version",
      "create_deb_files", "build_deb", "rmtree">>

\* the calls main makes, in order
MainSequence ==
    <<"mkdtemp", "get_archive", "extract_archive", "get_version", "prepare_dir",
      "create_deb_files", "build_deb", "rmtree">>

\* main returning right after build_deb, the rmtree call forgotten
After_NoCleanup(stage) ==
    LET i == CHOOSE j \in 1..Len(MainSequence) : MainSequence[j] = stage
    IN IF i < Len(MainSequence) - 1 THEN MainSequence[i + 1] ELSE "return"

\* where main continues once the call named stage has returned
After(stage) ==
    LET i == CHOOSE j \in 1..Len(MainSequence) : MainSequence[j] = stage
    IN IF i < Len(MainSequence) THEN MainSequence[i + 1] ELSE "return"

\* the call returned normally: main goes on with the next one
Continue(stage) ==
    /\ pc' = After(stage)
    /\ tmp_exists' = tmp_exists
    /\ UNCHANGED <<exitKind, exitCode, message>>

Enter(stage) ==
    /\ pc = stage
    /\ calls' = Append(calls, stage)

(***************************************************************************)
(* Initial state                                                           *)
(***************************************************************************)
Init ==
    /\ entry \in {"cli", "main"}
    /\ arch \in ArchKeys
    /\ archive \in Archives
    /\ pc = IF entry = "cli" THEN "argparse" ELSE MainSequence[1]
    /\ tmp_exists = FALSE
    /\ scratch = {}
    /\ control = NoControl
    /\ cwd = {}
    /\ requests = <<>>
    /\ version = ""
    /\ exitKind = "running"
    /\ exitCode = -1
    /\ message = ""
    /\ calls = <<>>
    /\ dpkgCalls = <<>>

(***************************************************************************)
(* The script's entry: argparse rejects a key outside the choices          *)
(***************************************************************************)
ParseArgs ==
    /\ pc = "argparse"
    /\ IF arch \in Choices
       THEN /\ pc' = MainSequence[1]
            /\ UNCHANGED <<exitKind, exitCode, message>>
       ELSE /\ pc' = "exited"
            /\ exitKind' = "argparse_error"
            /\ exitCode' = 2
            /\ message' = "invalid choice (choose from 'x86_64', 'i686')"
    /\ UNCHANGED <<entry, arch, archive, tmp_exists, scratch, control, cwd,
                   requests, version, calls, dpkgCalls>>

(***************************************************************************)
(* main                                                                    *)
(***************************************************************************)
\* tmp_dir = Path(mkdtemp(prefix='getzotero_')).resolve()
Mkdtemp ==
    /\ pc = "mkdtemp"
    /\ pc' = After("mkdtemp")
    /\ tmp_exists' = TRUE
    /\ scratch' = {}
    /\ UNCHANGED <<entry, arch, archive, control, cwd, requests, version,
                   exitKind, exitCode, message, calls, dpkgCalls>>

\* ', '.join(str, URLS.keys()): the arguments the call passes
JoinArgs == <<"str", "URLS.keys()">>

\* str.join takes exactly one argument
JoinArity == 1

DownloadOutcomes == {"ok", "HTTPError", "URLError", "ConnectionResetError"}

\* the exceptions get_archive's except clause catches
Caught == {"HTTPError"}

\* get_archive(tmp_dir, arch)
GetArchive ==
    /\ Enter("get_archive")
    /\ IF arch \notin DOMAIN URLS
       THEN /\ IF Len(JoinArgs) # JoinArity
               THEN Raise("TypeError")
               ELSE SysExit("This architecture is not suppoerted. Use one of: x86_64, i686")
            /\ UNCHANGED <<scratch, requests>>
       ELSE LET url == URLS[arch] IN
            /\ requests' = Append(requests, url)
            /\ \E outcome \in DownloadOutcomes :
                  \* urlopen raises before the file is opened; a failure
                  \* while the body is copied leaves the file begun
                  /\ scratch' = IF outcome \in {"ok", "ConnectionResetError"}
                                THEN scratch \cup {<<FILENAME>>}
                                ELSE scratch
                  /\ IF outcome = "ok" THEN Continue("get_archive")
                     ELSE IF outcome \in Caught
                          THEN SysExit("Cannot download: " \o url)
                          ELSE Raise(outcome)
    /\ UNCHANGED <<entry, arch, archive, control, cwd, version, dpkgCalls>>

\* tar.extractall(tmp_dir): the members land below the scratch directory
ExtractAll(paths, ar) == paths \cup Members(ar)

\* the archive left where it was downloaded
Unlink_Forgotten(paths, p) == paths

\* Path.unlink
Unlink(paths, p) == paths \ {p}

\* extract_archive(tmp_dir)
ExtractArchive ==
    /\ Enter("extract_archive")
    /\ IF ~archive.wellformed
       THEN /\ Raise("ReadError")
            /\ UNCHANGED scratch
       ELSE /\ scratch' = Unlink(ExtractAll(scratch, archive), <<FILENAME>>)
            /\ Continue("extract_archive")
    /\ UNCHANGED <<entry, arch, archive, control, cwd, requests, version, dpkgCalls>>

\* zotero_dir = tmp_dir / ZOTERO_SUBDIR.format(arch=arch)
zotero_dir == <<ZOTERO_SUBDIR(arch)>>

\* what get_version(zotero_dir) does with the tree below paths: the version
\* it returns, or the error it raises
get_version(paths, dir, ini) ==
    IF dir \o <<INI_FILE>> \notin paths
    THEN [error |-> "FileNotFoundError", value |-> ""]
    ELSE LET parser == read_file(ini, 1, "", EmptyParser) IN
         IF parser.error # ""
         THEN [error |-> parser.error, value |-> ""]
         ELSE parser_get(parser, VERSION_SECTION[1], VERSION_SECTION[2])

\* version = get_version(zotero_dir)
GetVersion ==
    /\ Enter("get_version")
    /\ LET r == get_version(scratch, zotero_dir, archive.ini) IN
       IF r.error # ""
       THEN /\ Raise(r.error)
            /\ UNCHANGED version
       ELSE /\ version' = r.value
            /\ Continue("get_version")
    /\ UNCHANGED <<entry, arch, archive, scratch, control, cwd, requests, dpkgCalls>>

\* prepare_dir(tmp_dir, zotero_dir)
PrepareDir ==
    /\ Enter("prepare_dir")
    /\ IF <<"opt">> \in scratch
       THEN /\ Raise("FileExistsError")
            /\ UNCHANGED scratch
       ELSE /\ scratch' = Rename(scratch \cup {<<"opt">>}, zotero_dir, <<"opt", "zotero">>)
            /\ Continue("prepare_dir")
    /\ UNCHANGED <<entry, arch, archive, control, cwd, requests, version, dpkgCalls>>

\* the raw key passed on untranslated
DebArch_Raw(a) == a

\* the architecture main passes to create_deb_files and build_deb
DebArch(a) == ARCH_TRANSLATE[a]

desktop_dir == <<"usr", "share", "applications">>

\* create_deb_files(tmp_dir, version, ARCH_TRANSLATE[arch])
CreateDebFiles ==
    /\ Enter("create_deb_files")
    /\ IF <<"DEBIAN">> \in scratch
       THEN /\ Raise("FileExistsError")
            /\ UNCHANGED <<scratch, control>>
       ELSE /\ control' = DEB_CONTROL(version, DebArch(arch))
            /\ IF desktop_dir \in scratch
               THEN /\ scratch' = scratch \cup {<<"DEBIAN">>, <<"DEBIAN", "control">>}
                    /\ Raise("FileExistsError")
               ELSE /\ scratch' = scratch
                                    \cup {<<"DEBIAN">>, <<"DEBIAN", "control">>}
                                    \cup WithParents(desktop_dir \o <<"zotero.desktop">>)
                    /\ Continue("create_deb_files")
    /\ UNCHANGED <<entry, arch, archive, cwd, requests, version, dpkgCalls>>

DpkgOutcomes == {"zero", "nonzero", "not_found"}

\* subprocess.run([...], check=True): a non-zero exit status raises too
RunRaises_Checked(outcome) == outcome # "zero"

\* subprocess.run([...]) without check=True raises only when the
\* executable cannot be started
RunRaises(outcome) == outcome = "not_found"

\* build_deb(tmp_dir, version, ARCH_TRANSLATE[arch])
BuildDeb ==
    /\ Enter("build_deb")
    /\ \E outcome \in DpkgOutcomes :
          LET out == DEB_FILE(version, DebArch(arch)) IN
          /\ dpkgCalls' = IF outcome = "not_found" THEN dpkgCalls
                          ELSE Append(dpkgCalls,
                                      [root |-> scratch, out |-> out, status |-> outcome])
          /\ cwd' = IF outcome = "zero" THEN cwd \cup {out} ELSE cwd
          /\ IF RunRaises(outcome)
             THEN Raise("FileNotFoundError")
             ELSE Continue("build_deb")
    /\ UNCHANGED <<entry, arch, archive, scratch, control, requests, version>>

\* rmtree(str(tmp_dir))
Rmtree ==
    /\ Enter("rmtree")
    /\ pc' = After("rmtree")
    /\ tmp_exists' = FALSE
    /\ scratch' = {}
    /\ UNCHANGED <<entry, arch, archive, control, cwd, requests, version,
                   exitKind, exitCode, message, dpkgCalls>>

\* main returns and the script ends
MainReturns ==
    /\ pc = "return"
    /\ pc' = "exited"
    /\ exitKind' = "returned"
    /\ exitCode' = 0
    /\ UNCHANGED <<entry, arch, archive, tmp_exists, scratch, control, cwd,
                   requests, version, message, calls, dpkgCalls>>

Next ==
    \/ ParseArgs
    \/ Mkdtemp
    \/ GetArchive
    \/ ExtractArchive
    \/ GetVersion
    \/ PrepareDir
    \/ CreateDebFiles
    \/ BuildDeb
    \/ Rmtree
    \/ MainReturns

Spec == Init /\ [][Next]_vars

(***************************************************************************)
(* Vocabulary of the properties, stated apart from the model's operators   *)
(***************************************************************************)
Supported == {"x86_64", "i686"}

Terminated == pc = "exited"

Range(f) == {f[i] : i \in DOMAIN f}

\* the stages in the order the pipeline is meant to run them
Canonical ==
    <<"get_archive", "extract_archive", "get_version", "prepare_dir",
      "create_deb_files", "build_deb", "rmtree">>

\* the package-convention label of a supported key
ExpectedDebArch == IF arch = "x86_64" THEN "amd64" ELSE "i386"

ExpectedName(v) == "zotero_" \o v \o "_" \o ExpectedDebArch \o ".deb"

ExpectedUrl ==
    "https://www.zotero.org/download/client/dl?channel=release&platform=linux-" \o arch

ExpectedDir == <<"Zotero_linux-" \o arch>>

\* line j of the ini is a Version option standing in section [App]
IsAppVersion(ini, j) ==
    /\ ini[j].kind = "option"
    /\ ini[j].name \in {"Version", "version"}
    /\ \E i \in 1..(j - 1) :
          /\ ini[i] = Sec("App")
          /\ \A k \in (i + 1)..(j - 1) : ini[k].kind = "option"

\* option names compare without regard to case
Key(n) == IF n \in {"Version", "version"} THEN "version" ELSE "name"

\* the ini is one ConfigParser accepts: options only inside sections, no
\* section twice and no option twice in a section
WellFormedIni(ini) ==
    /\ ini # <<>> => ini[1].kind = "section"
    /\ \A i, j \in 1..Len(ini) :
          (i < j /\ ini[i].kind = "section") => ini[i] # ini[j]
    /\ \A i, j \in 1..Len(ini) :
          (i < j /\ \A k \in i..j : ini[k].kind = "option")
          => Key(ini[i].name) # Key(ini[j].name)

HasAppVersion(ini) == \E j \in 1..Len(ini) : IsAppVersion(ini, j)

DeclaredVersion(ini) == ini[CHOOSE j \in 1..Len(ini) : IsAppVersion(ini, j)].value

\* the tarball holds Zotero_linux-<arch>/application.ini
HasIniFile == archive.wellformed /\ arch \in archive.appDirs /\ archive.hasIni

(***************************************************************************)
(* C1: for an architecture key outside the supported set, the pipeline     *)
(* (main, then get_archive) makes no network request and touches no file   *)
(* (no scratch directory is created), and it ends with a non-zero exit     *)
(* whose message lists the valid keys.                                     *)
(***************************************************************************)
C1_NoIoForUnsupportedArch ==
    (entry = "main" /\ arch \notin Supported) =>
        /\ ~tmp_exists
        /\ requests = <<>>
        /\ Terminated =>
              /\ exitKind = "sys_exit"
              /\ exitCode # 0
              /\ message = "This architecture is not suppoerted. Use one of: x86_64, i686"

(***************************************************************************)
(* C2: for a supported key, every failure of the download, an HTTP error   *)
(* status or any other, ends the run by sys.exit with a message holding    *)
(* the attempted URL, after exactly one request and with no later stage    *)
(* started.                                                                *)
(***************************************************************************)
C2_DownloadFailureReported ==
    (arch \in Supported /\ Terminated /\ calls = <<"get_archive">>) =>
        /\ exitKind = "sys_exit"
        /\ exitCode # 0
        /\ message = "Cannot download: " \o ExpectedUrl
        /\ requests = <<ExpectedUrl>>

\* the tarball fulfils the pipeline's expectations: it is well-formed and
\* holds Zotero_linux-<arch>/application.ini with a Version under [App]
GoodArchive == HasIniFile /\ HasAppVersion(archive.ini)

DownloadSucceeded == "extract_archive" \in Range(calls)

PackageBuilt == dpkgCalls # <<>> /\ dpkgCalls[Len(dpkgCalls)].status = "zero"

C5_ArchTranslatedOnce ==
    /\ control.written =>
          /\ control.Architecture = ExpectedDebArch
          /\ control.Architecture # arch
    /\ \A i \in 1..Len(dpkgCalls) :
          /\ dpkgCalls[i].out = ExpectedName(version)
          /\ <<"opt", "zotero", "application.ini">> \in dpkgCalls[i].root
          /\ ExpectedDir \notin dpkgCalls[i].root
          /\ \A a \in archive.appDirs \ {arch} :
                <<"Zotero_linux-" \o a>> \in dpkgCalls[i].root
    /\ \A f \in cwd : f = ExpectedName(version)
    /\ \A i \in 1..Len(requests) : requests[i] = ExpectedUrl

C5_Witness ==
    /\ arch = "i686"
    /\ control.written /\ control.Architecture = "i386"
    /\ cwd # {}
    /\ requests # <<>>
    /\ archive.appDirs = {"x86_64", "i686"}

C7_StagesInOrder ==
    /\ [](/\ Len(calls) <= Len(Canonical)
          /\ calls = SubSeq(Canonical, 1, Len(calls))
          /\ exitKind = "returned" => calls = Canonical
          /\ exitKind \in {"sys_exit", "unhandled"} => pc = "exited")
    /\ [][/\ calls' # calls =>
                /\ exitKind = "running"
                /\ Len(calls) < Len(Canonical)
                /\ calls' = Append(calls, Canonical[Len(calls) + 1])
          /\ exitKind # "running" => calls' = calls]_vars

C7_Witness == Terminated /\ exitKind = "returned" /\ calls = Canonical

(***************************************************************************)
(* C8: only the last step of the successful path deletes the scratch       *)
(* directory: once created it exists until rmtree runs, so a run that      *)
(* fails after creating it ends with it still on disk.                     *)
(***************************************************************************)
C8_ScratchLeftOnFailure ==
    /\ (pc \notin {"argparse", "mkdtemp"} /\ exitKind # "argparse_error"
        /\ "rmtree" \notin Range(calls)) => tmp_exists
    /\ (Terminated /\ exitKind \in {"sys_exit", "unhandled"}) => tmp_exists

C8_Witness ==
    /\ Terminated /\ exitKind = "unhandled" /\ message = "FileExistsError"
    /\ calls[Len(calls)] = "create_deb_files"
    /\ tmp_exists

(***************************************************************************)
(* C9: whether dpkg-deb exits zero or not, build_deb returns normally, the *)
(* scratch directory is then deleted and the run ends with exit code 0; a  *)
(* run can so end successfully with no package file produced.              *)
(***************************************************************************)
C9_DpkgStatusIgnored ==
    dpkgCalls # <<>> =>
        /\ exitKind \in {"running", "returned"}
        /\ pc \in {"rmtree", "return", "exited"}
        /\ pc \in {"return", "exited"} => ~tmp_exists
        /\ Terminated => (exitCode = 0 /\ calls = Canonical)

C9_Witness ==
    /\ Terminated /\ exitCode = 0 /\ ~tmp_exists /\ cwd = {}
    /\ dpkgCalls # <<>> /\ dpkgCalls[1].status = "nonzero"

(***************************************************************************)
(* C10: whenever dpkg-deb is invoked, the package root holds neither       *)
(* zotero.tar.bz2 nor a top-level Zotero_linux-<arch>, and it holds        *)
(* opt/zotero, DEBIAN/control and usr/share/applications/zotero.desktop.   *)
(***************************************************************************)
C10_PackageRootLayout ==
    \A i \in 1..Len(dpkgCalls) :
        LET root == dpkgCalls[i].root IN
        /\ <<"zotero.tar.bz2">> \notin root
        /\ ExpectedDir \notin root
        /\ <<"opt", "zotero">> \in root
        /\ <<"DEBIAN", "control">> \in root
        /\ <<"usr", "share", "applications", "zotero.desktop">> \in root

C10_Witness ==
    /\ dpkgCalls # <<>>
    /\ <<"opt", "zotero", "zotero">> \in dpkgCalls[1].root
    /\ archive.appDirs = {"x86_64", "i686"}

====
